---- MODULE Spec2Model ----
(***************************************************************************)
(* Model of the pyRevit push button "Grid-Based Numbering" (script.py).    *)
(*                                                                         *)
(* The script is linear: read the selection, ensure the two text           *)
(* parameters "Grid Square" and "Number", let the user pick the starting   *)
(* element, compute the grid intersections, write "Grid Square" and        *)
(* "Number" inside one transaction, commit and report.                     *)
(*                                                                         *)
(* The host (Revit) is modelled by what the script reads from it: a        *)
(* document of elements with a category, a location and parameters, the    *)
(* parameter binding map, the shared parameter file, the grids, and        *)
(* transactions that are started, committed or rolled back.  A host call   *)
(* inside a transaction either does what it is asked or raises.            *)
(***************************************************************************)
EXTENDS Integers, Sequences, FiniteSets, TLC

\* Largest number of elements in the user's selection.
MaxSel == 3

\* float("inf"), larger than every distance of the model.
Inf == 1000

None == <<>>

----------------------------------------------------------------------------
(* The host document.                                                      *)

Categories == {"Walls", "Doors", "Lines"}

\* Category.AllowsBoundParameters
AllowsBoundParameters(cat) == cat \in {"Walls", "Doors"}

\* elem.Category of an element that has none
NoCategory == "NoCategory"

ParamNames == {"Grid Square", "Number"}

\* A parameter of the document the script never names.
OtherParam == "Mark"

Point(p) == [kind |-> "Point", p0 |-> p, p1 |-> p]
Curve(p, q) == [kind |-> "Curve", p0 |-> p, p1 |-> q]
NoLocation == [kind |-> "None", p0 |-> None, p1 |-> None]

\* The elements of the document: Category, Location and the parameters the
\* host reports as read-only on the element.
ElementTable ==
    [ w1 |-> [Category |-> "Walls", Location |-> Curve(<<1, 0>>, <<3, 0>>),
              ReadOnly |-> {}],
      d1 |-> [Category |-> "Doors", Location |-> Point(<<2, 0>>),
              ReadOnly |-> {}],
      l1 |-> [Category |-> "Lines", Location |-> Curve(<<0, 2>>, <<2, 2>>),
              ReadOnly |-> {}],
      g1 |-> [Category |-> NoCategory, Location |-> NoLocation,
              ReadOnly |-> {}],
      r1 |-> [Category |-> "Walls", Location |-> Point(<<3, 1>>),
              ReadOnly |-> {"Number"}],
      q1 |-> [Category |-> "Doors", Location |-> Point(<<0, 2>>),
              ReadOnly |-> {"Grid Square"}] ]

Elements == DOMAIN ElementTable

\* doc.GetElement(eid)
GetElement(eid) == ElementTable[eid]

Grid(name, p, q) == [Name |-> name, Curve |-> Curve(p, q)]

\* The grids of the document, in the order the collector returns them.
GridLayouts ==
    { << Grid("B", <<4, 0>>, <<4, 2>>), Grid("1", <<0, 0>>, <<4, 0>>),
         Grid("A", <<0, 0>>, <<0, 2>>), Grid("2", <<0, 2>>, <<2, 2>>) >>,
      << Grid("A", <<0, 0>>, <<0, 2>>), Grid("B", <<4, 0>>, <<4, 2>>) >> }

\* The binding maps a document can have before the run: each of the two
\* parameters absent or bound to some bindable categories, OtherParam bound.
BindableSets == (SUBSET {c \in Categories : AllowsBoundParameters(c)}) \ {{}}

InitialBindings ==
    UNION { { [p \in D \cup {OtherParam} |->
                 IF p = OtherParam THEN {"Walls"} ELSE f[p]] :
              f \in [D -> BindableSets] } : D \in SUBSET ParamNames }

\* Selections: sequences of distinct element ids, at most MaxSel long.
Selections ==
    UNION { { s \in [1..n -> Elements] :
                \A i, j \in 1..n : i # j => s[i] # s[j] } : n \in 0..MaxSel }

\* The value a text parameter holds before the run where it is bound.
StaleValue == "old"
NoValue == ""

InitialValues(bm, name) ==
    [e \in Elements |->
        IF name \in DOMAIN bm /\ GetElement(e).Category \in bm[name]
        THEN StaleValue ELSE NoValue]

----------------------------------------------------------------------------
VARIABLES
    pc,                \* position in the script
    alert,             \* the last forms.alert message
    sel,               \* initial_sel_ids
    grids,             \* the grids of the document
    bindingMap,        \* doc.ParameterBindings: parameter name -> categories
    sharedDefs,        \* definitions of group "Grid Tools" of the shared file
    gridSquare,        \* value of "Grid Square" per element
    number,            \* value of "Number" per element
    txns,              \* transactions started and neither committed nor rolled back
    param,             \* param_name of the running ensure_text_parameter call
    start_elem,
    start_point,
    intersections,
    modified_elem_ids,
    bindingMap0,       \* history: the binding map before the run
    returned,          \* history: parameter names whose ensure call returned
    gsAssigned,        \* history: elements whose "Grid Square" was Set
    numWritten         \* history: element -> num at the time "Number" was Set

vars == << pc, alert, sel, grids, bindingMap, sharedDefs, gridSquare, number,
           txns, param, start_elem, start_point, intersections,
           modified_elem_ids, bindingMap0, returned, gsAssigned, numWritten >>

----------------------------------------------------------------------------
(* Transactions.                                                           *)

\* The document state a transaction can change.
DocState(bm, gs, nm) == [bindingMap |-> bm, gridSquare |-> gs, number |-> nm]

\* Transaction(doc, name); t.Start()
Start(name) ==
    txns \cup {[Name |-> name, saved |-> DocState(bindingMap, gridSquare, number)]}

\* t.Commit() and t.RollBack() both end the transaction; a committed
\* transaction leaves the document as changed since t.Start().
Finish(name) == {t \in txns : t.Name # name}

RollBackKeepsChanges(changed, saved) == changed

\* t.RollBack(): the document returns to its state at t.Start().
RollBack(changed, saved) == saved

SavedBy(name) == (CHOOSE t \in txns : t.Name = name).saved

----------------------------------------------------------------------------
(* ensure_text_parameter                                                   *)

\* selected_categories
SelectedCategories(s) ==
    {GetElement(s[i]).Category : i \in 1..Len(s)} \ {NoCategory}

\* cat_set
CatSet(categories) == {cat \in categories : AllowsBoundParameters(cat)}

MissingCatsNone(cat_set, existingCats) == {}

\* missingCats
MissingCats(cat_set, existingCats) ==
    {cat \in cat_set : cat \notin existingCats}

UpdatedCategoriesReplace(existingCats, missingCats) ==
    {missingCat \in missingCats : AllowsBoundParameters(missingCat)}

\* existingCats after the Insert loop
UpdatedCategories(existingCats, missingCats) ==
    existingCats \cup
        {missingCat \in missingCats : AllowsBoundParameters(missingCat)}

\* bindingMap.ReInsert(definition, binding) and bindingMap.Insert(def, binding, group)
Insert(bm, name, cats) ==
    [p \in DOMAIN bm \cup {name} |-> IF p = name THEN cats ELSE bm[p]]

UpdateName(name) == "Update binding for " \o name
AddName(name) == "Add Project Parameter: " \o name
AssignName == "Assign Grid Square and Number"

\* Where the script goes on when ensure_text_parameter(param) has returned.
Return ==
    /\ returned' = returned \cup {param}
    /\ IF param = "Grid Square"
       THEN /\ param' = "Number"
            /\ pc' = "ensure"
       ELSE /\ param' = param
            /\ pc' = "pick"

----------------------------------------------------------------------------
(* get_element_location, get_grid_intersections and the two labelling       *)
(* loops.                                                                  *)

\* curve.Evaluate(0.5, True): the midpoint of a line.
Evaluate(curve) ==
    << (curve.p0[1] + curve.p1[1]) \div 2, (curve.p0[2] + curve.p1[2]) \div 2 >>

get_element_location_point_only(elem) ==
    LET loc == elem.Location
    IN  IF loc.kind = "Point" THEN loc.p0 ELSE None

get_element_location(elem) ==
    LET loc == elem.Location
    IN  IF loc.kind = "Point" THEN loc.p0
        ELSE IF loc.kind = "Curve" THEN Evaluate(loc)
        ELSE None

\* XYZ.DistanceTo, squared: the script only compares distances (dist <
\* min_dist, sort by distance), and squaring keeps their order and their ties.
DistanceTo(p, q) ==
    (p[1] - q[1]) * (p[1] - q[1]) + (p[2] - q[2]) * (p[2] - q[2])

Abs(x) == IF x < 0 THEN -x ELSE x

\* curve.Direction, not normalised: abs(X) > abs(Y) is the same for both.
Direction(curve) == << curve.p1[1] - curve.p0[1], curve.p1[2] - curve.p0[2] >>

IsHorizontal(grid) ==
    Abs(Direction(grid.Curve)[1]) > Abs(Direction(grid.Curve)[2])

horizontal_grids(gs) == SelectSeq(gs, IsHorizontal)
vertical_grids(gs) == SelectSeq(gs, LAMBDA g : ~IsHorizontal(g))

Between(a, x, b) == (a <= x /\ x <= b) \/ (b <= x /\ x <= a)

\* The points of an axis-parallel line segment.
OnCurve(p, curve) ==
    \/ /\ curve.p0[1] = curve.p1[1]
       /\ p[1] = curve.p0[1]
       /\ Between(curve.p0[2], p[2], curve.p1[2])
    \/ /\ curve.p0[2] = curve.p1[2]
       /\ p[2] = curve.p0[2]
       /\ Between(curve.p0[1], p[1], curve.p1[1])

Lattice == (0..4) \X (0..2)

\* v.Curve.Intersect(h.Curve, results): the points both curves pass through;
\* SetComparisonResult.Overlap with results.Size > 0 when there is one.
Intersect(c1, c2) == {p \in Lattice : OnCurve(p, c1) /\ OnCurve(p, c2)}

RECURSIVE IntersectionsOfRow(_, _, _)
IntersectionsOfRow(v, h_grids, j) ==
    IF j > Len(h_grids) THEN <<>>
    ELSE LET h == h_grids[j]
             results == Intersect(v.Curve, h.Curve)
         IN  (IF results # {}
              THEN << << CHOOSE ip \in results : TRUE, v, h >> >>
              ELSE <<>>)
             \o IntersectionsOfRow(v, h_grids, j + 1)

RECURSIVE IntersectionsFrom(_, _, _)
IntersectionsFrom(v_grids, h_grids, i) ==
    IF i > Len(v_grids) THEN <<>>
    ELSE IntersectionsOfRow(v_grids[i], h_grids, 1)
         \o IntersectionsFrom(v_grids, h_grids, i + 1)

get_grid_intersections(v_grids, h_grids) ==
    IntersectionsFrom(v_grids, h_grids, 1)

\* elem.LookupParameter(name): the element has the parameter when it is
\* bound to the element's category.
LookupParameter(bm, elem, name) ==
    name \in DOMAIN bm /\ elem.Category \in bm[name]

\* param and not param.IsReadOnly
Writable(bm, elem, name) ==
    LookupParameter(bm, elem, name) /\ name \notin elem.ReadOnly

FartherThan(dist, min_dist) == dist > min_dist

\* dist < min_dist
NearerThan(dist, min_dist) == dist < min_dist

RECURSIVE ClosestFrom(_, _, _, _, _)
ClosestFrom(pt, ints, i, min_dist, closest) ==
    IF i > Len(ints) THEN closest
    ELSE LET dist == DistanceTo(pt, ints[i][1])
         IN  IF NearerThan(dist, min_dist)
             THEN ClosestFrom(pt, ints, i + 1, dist, << ints[i][2], ints[i][3] >>)
             ELSE ClosestFrom(pt, ints, i + 1, min_dist, closest)

\* The inner loop of the "Grid Square" assignment: (v_grid, h_grid) or None.
Closest(pt, ints) == ClosestFrom(pt, ints, 1, Inf, None)

\* "{}-{}".format(closest[0].Name, closest[1].Name)
GridSquareOf(closest) == closest[1].Name \o "-" \o closest[2].Name

Digits == << "0", "1", "2", "3", "4", "5", "6", "7", "8", "9" >>

\* str(num)
RECURSIVE Str(_)
Str(n) ==
    IF n < 10 THEN Digits[n + 1] ELSE Str(n \div 10) \o Digits[(n % 10) + 1]

\* Whether the "Grid Square" loop reaches param.Set for the element.
SetsGridSquare(bm, ints, eid) ==
    LET elem == GetElement(eid)
        pt == get_element_location(elem)
    IN  /\ pt # None
        /\ Closest(pt, ints) # None
        /\ Writable(bm, elem, "Grid Square")

\* The "Grid Square" loop over sel[i..upto], from state st.
RECURSIVE GridSquareLoop(_, _, _, _, _, _)
GridSquareLoop(s, bm, ints, i, upto, st) ==
    IF i > upto THEN st
    ELSE LET eid == s[i]
             pt == get_element_location(GetElement(eid))
         IN  IF SetsGridSquare(bm, ints, eid)
             THEN GridSquareLoop(s, bm, ints, i + 1, upto,
                    [gridSquare |-> [st.gridSquare EXCEPT
                                        ![eid] = GridSquareOf(Closest(pt, ints))],
                     modified |-> st.modified \cup {eid},
                     assigned |-> st.assigned \cup {eid}])
             ELSE GridSquareLoop(s, bm, ints, i + 1, upto, st)

\* elements_with_distance before the sort
RECURSIVE ElementsWithDistance(_, _, _)
ElementsWithDistance(s, sp, i) ==
    IF i > Len(s) THEN <<>>
    ELSE LET pt == get_element_location(GetElement(s[i]))
         IN  (IF pt # None THEN << << s[i], DistanceTo(pt, sp) >> >> ELSE <<>>)
             \o ElementsWithDistance(s, sp, i + 1)

\* Insert x into a sorted list behind every entry whose key is not larger.
RECURSIVE InsertSorted(_, _)
InsertSorted(x, sorted) ==
    IF sorted = <<>> THEN << x >>
    ELSE IF x[2] < Head(sorted)[2] THEN << x >> \o sorted
    ELSE << Head(sorted) >> \o InsertSorted(x, Tail(sorted))

RECURSIVE SortFrom(_, _, _)
SortFrom(list, i, sorted) ==
    IF i > Len(list) THEN sorted
    ELSE SortFrom(list, i + 1, InsertSorted(list[i], sorted))

SortNot(list) == list

\* list.sort(key=lambda x: x[1]): ascending and stable.
Sort(list) == SortFrom(list, 1, <<>>)

NextNumAlways(num, wrote) == num + 1

\* num after one pass of the "Number" loop: num += 1 only after a Set.
NextNum(num, wrote) == IF wrote THEN num + 1 ELSE num

\* The "Number" loop over ewd[i..upto], from state st.
RECURSIVE NumberLoop(_, _, _, _, _)
NumberLoop(ewd, bm, i, upto, st) ==
    IF i > upto THEN st
    ELSE LET eid == ewd[i][1]
             wrote == Writable(bm, GetElement(eid), "Number")
         IN  NumberLoop(ewd, bm, i + 1, upto,
               IF wrote
               THEN [number |-> [st.number EXCEPT ![eid] = Str(st.num)],
                     modified |-> st.modified \cup {eid},
                     written |-> st.written @@ (eid :> st.num),
                     num |-> NextNum(st.num, wrote)]
               ELSE [st EXCEPT !.num = NextNum(st.num, wrote)])

----------------------------------------------------------------------------
(* The script.                                                             *)

Init ==
    /\ pc = "start"
    /\ alert = ""
    /\ sel \in Selections
    /\ grids \in GridLayouts
    /\ bindingMap \in InitialBindings
    /\ sharedDefs \in {{}, {"Number"}}
    /\ gridSquare = InitialValues(bindingMap, "Grid Square")
    /\ number = InitialValues(bindingMap, "Number")
    /\ txns = {}
    /\ param = "Grid Square"
    /\ start_elem = None
    /\ start_point = None
    /\ intersections = <<>>
    /\ modified_elem_ids = {}
    /\ bindingMap0 = bindingMap
    /\ returned = {}
    /\ gsAssigned = {}
    /\ numWritten = <<>>

\* forms.alert(msg, exitscript=True)
AlertAndExit(msg) ==
    /\ alert' = msg
    /\ pc' = "exit"

\* Lines 177-189: the selection and its categories.
ReadSelection ==
    /\ pc = "start"
    /\ IF sel = <<>>
       THEN AlertAndExit("Please select one or more elements.")
       ELSE /\ pc' = "ensure"
            /\ alert' = alert
    /\ UNCHANGED << sel, grids, bindingMap, sharedDefs, gridSquare, number,
                    txns, param, start_elem, start_point, intersections,
                    modified_elem_ids, bindingMap0, returned, gsAssigned,
                    numWritten >>

\* Lines 41-68 and 80-82: look the parameter up in the binding map; start the
\* update transaction when categories are missing, the creation transaction
\* when the parameter does not exist, and return otherwise.
EnsureLookup ==
    /\ pc = "ensure"
    /\ LET cat_set == CatSet(SelectedCategories(sel))
       IN  IF param \in DOMAIN bindingMap
           THEN IF MissingCats(cat_set, bindingMap[param]) # {}
                THEN /\ txns' = Start(UpdateName(param))
                     /\ pc' = "update"
                     /\ UNCHANGED << param, returned >>
                ELSE /\ Return
                     /\ txns' = txns
           ELSE /\ txns' = Start(AddName(param))
                /\ pc' = "create"
                /\ UNCHANGED << param, returned >>
    /\ UNCHANGED << alert, sel, grids, bindingMap, sharedDefs, gridSquare,
                    number, start_elem, start_point, intersections,
                    modified_elem_ids, bindingMap0, gsAssigned, numWritten >>

\* The binding map with the missing categories added to the binding of param.
Rebound ==
    LET cat_set == CatSet(SelectedCategories(sel))
        existingCats == bindingMap[param]
    IN  Insert(bindingMap, param,
               UpdatedCategories(existingCats, MissingCats(cat_set, existingCats)))

\* Lines 69-78: add the missing categories, ReInsert, Commit.
UpdateBinding ==
    /\ pc = "update"
    /\ bindingMap' = Rebound
    /\ txns' = Finish(UpdateName(param))
    /\ Return
    /\ UNCHANGED << alert, sel, grids, sharedDefs, gridSquare, number,
                    start_elem, start_point, intersections, modified_elem_ids,
                    bindingMap0, gsAssigned, numWritten >>

\* Lines 69-77 when ReInsert or Commit raises: nothing catches the exception,
\* the script ends and the transaction is neither committed nor rolled back.
UpdateBindingRaises ==
    /\ pc = "update"
    /\ bindingMap' \in {bindingMap, Rebound}
    /\ pc' = "crashed"
    /\ UNCHANGED << alert, sel, grids, sharedDefs, gridSquare, number, txns,
                    param, start_elem, start_point, intersections,
                    modified_elem_ids, bindingMap0, returned, gsAssigned,
                    numWritten >>

\* Lines 83-122: the definition is taken from the shared group or created in
\* it, the binding is inserted, the transaction committed.
CreateParameter ==
    /\ pc = "create"
    /\ sharedDefs' = sharedDefs \cup {param}
    /\ bindingMap' = Insert(bindingMap, param, CatSet(SelectedCategories(sel)))
    /\ txns' = Finish(AddName(param))
    /\ Return
    /\ UNCHANGED << alert, sel, grids, gridSquare, number, start_elem,
                    start_point, intersections, modified_elem_ids, bindingMap0,
                    gsAssigned, numWritten >>

\* Lines 83-125 when a call of the try block raises, before or after the
\* definition was created and before or after the binding was inserted:
\* RollBack, alert, exit.
CreateParameterFails ==
    /\ pc = "create"
    /\ \E created, inserted \in BOOLEAN :
          /\ inserted => created
          /\ sharedDefs' = IF created THEN sharedDefs \cup {param} ELSE sharedDefs
          /\ LET changed == IF inserted
                            THEN Insert(bindingMap, param,
                                        CatSet(SelectedCategories(sel)))
                            ELSE bindingMap
             IN  bindingMap' = RollBack(changed, SavedBy(AddName(param)).bindingMap)
    /\ txns' = Finish(AddName(param))
    /\ AlertAndExit("Failed to create parameter: " \o param)
    /\ UNCHANGED << sel, grids, gridSquare, number, param, start_elem,
                    start_point, intersections, modified_elem_ids, bindingMap0,
                    returned, gsAssigned, numWritten >>

\* InitialSelectionFilter.AllowElement
AllowElement(allowed_ids, eid) == \E i \in 1..Len(allowed_ids) : allowed_ids[i] = eid

\* Lines 196-200: the prompt is shown and the user picks an element the
\* filter allows.
PickStart ==
    /\ pc = "pick"
    /\ \E eid \in Elements :
          /\ AllowElement(sel, eid)
          /\ start_elem' = eid
    /\ alert' = "Select the starting element for numbering."
    /\ pc' = "locate"
    /\ UNCHANGED << sel, grids, bindingMap, sharedDefs, gridSquare,
                    number, txns, param, start_point, intersections,
                    modified_elem_ids, bindingMap0, returned, gsAssigned,
                    numWritten >>

\* Lines 201-202: PickObject raises (the user cancels the pick).
PickCancelled ==
    /\ pc = "pick"
    /\ AlertAndExit("No starting element selected")
    /\ UNCHANGED << sel, grids, bindingMap, sharedDefs, gridSquare, number,
                    txns, param, start_elem, start_point, intersections,
                    modified_elem_ids, bindingMap0, returned, gsAssigned,
                    numWritten >>

\* Lines 204-206.
LocateStart ==
    /\ pc = "locate"
    /\ start_point' = get_element_location(GetElement(start_elem))
    /\ IF start_point' = None
       THEN AlertAndExit("The starting element does not have a valid location.")
       ELSE /\ pc' = "grids"
            /\ alert' = alert
    /\ UNCHANGED << sel, grids, bindingMap, sharedDefs, gridSquare, number,
                    txns, param, start_elem, intersections, modified_elem_ids,
                    bindingMap0, returned, gsAssigned, numWritten >>

\* Lines 209-222.
CollectGrids ==
    /\ pc = "grids"
    /\ intersections' =
           get_grid_intersections(vertical_grids(grids), horizontal_grids(grids))
    /\ IF intersections' = <<>>
       THEN AlertAndExit("No grid intersections found. Ensure the model has both vertical and horizontal grids.")
       ELSE /\ pc' = "begin"
            /\ alert' = alert
    /\ UNCHANGED << sel, grids, bindingMap, sharedDefs, gridSquare, number,
                    txns, param, start_elem, start_point, modified_elem_ids,
                    bindingMap0, returned, gsAssigned, numWritten >>

\* Lines 225-227.
BeginTransaction ==
    /\ pc = "begin"
    /\ txns' = Start(AssignName)
    /\ modified_elem_ids' = {}
    /\ pc' = "grid_square"
    /\ UNCHANGED << alert, sel, grids, bindingMap, sharedDefs, gridSquare,
                    number, param, start_elem, start_point, intersections,
                    bindingMap0, returned, gsAssigned, numWritten >>

GridSquareState ==
    [gridSquare |-> gridSquare, modified |-> modified_elem_ids,
     assigned |-> gsAssigned]

\* Lines 230-246: the whole "Grid Square" loop.
AssignGridSquares ==
    /\ pc = "grid_square"
    /\ LET st == GridSquareLoop(sel, bindingMap, intersections, 1, Len(sel),
                                GridSquareState)
       IN  /\ gridSquare' = st.gridSquare
           /\ modified_elem_ids' = st.modified
           /\ gsAssigned' = st.assigned
    /\ pc' = "number"
    /\ UNCHANGED << alert, sel, grids, bindingMap, sharedDefs, number, txns,
                    param, start_elem, start_point, intersections, bindingMap0,
                    returned, numWritten >>

\* Lines 230-245 when param.Set raises at the k-th selected element: the
\* exception is not caught, the script ends inside the transaction.
AssignGridSquaresRaises ==
    /\ pc = "grid_square"
    /\ \E k \in 1..Len(sel) :
          /\ SetsGridSquare(bindingMap, intersections, sel[k])
          /\ LET st == GridSquareLoop(sel, bindingMap, intersections, 1, k - 1,
                                      GridSquareState)
             IN  /\ gridSquare' = st.gridSquare
                 /\ modified_elem_ids' = st.modified
                 /\ gsAssigned' = st.assigned
    /\ pc' = "crashed"
    /\ UNCHANGED << alert, sel, grids, bindingMap, sharedDefs, number, txns,
                    param, start_elem, start_point, intersections, bindingMap0,
                    returned, numWritten >>

NumberState ==
    [number |-> number, modified |-> modified_elem_ids, written |-> numWritten,
     num |-> 1]

\* elements_with_distance after the sort
SortedElements == Sort(ElementsWithDistance(sel, start_point, 1))

\* Lines 249-266: the distances, the sort and the whole "Number" loop.
AssignNumbers ==
    /\ pc = "number"
    /\ LET ewd == SortedElements
           st == NumberLoop(ewd, bindingMap, 1, Len(ewd), NumberState)
       IN  /\ number' = st.number
           /\ modified_elem_ids' = st.modified
           /\ numWritten' = st.written
    /\ pc' = "commit"
    /\ UNCHANGED << alert, sel, grids, bindingMap, sharedDefs, gridSquare, txns,
                    param, start_elem, start_point, intersections, bindingMap0,
                    returned, gsAssigned >>

\* Lines 261-264 when param.Set raises at the k-th sorted element.
AssignNumbersRaises ==
    /\ pc = "number"
    /\ LET ewd == SortedElements
       IN  \E k \in 1..Len(ewd) :
              /\ Writable(bindingMap, GetElement(ewd[k][1]), "Number")
              /\ LET st == NumberLoop(ewd, bindingMap, 1, k - 1, NumberState)
                 IN  /\ number' = st.number
                     /\ modified_elem_ids' = st.modified
                     /\ numWritten' = st.written
    /\ pc' = "crashed"
    /\ UNCHANGED << alert, sel, grids, bindingMap, sharedDefs, gridSquare, txns,
                    param, start_elem, start_point, intersections, bindingMap0,
                    returned, gsAssigned >>

\* Line 268.
CommitLabels ==
    /\ pc = "commit"
    /\ txns' = Finish(AssignName)
    /\ pc' = "report"
    /\ UNCHANGED << alert, sel, grids, bindingMap, sharedDefs, gridSquare,
                    number, param, start_elem, start_point, intersections,
                    modified_elem_ids, bindingMap0, returned, gsAssigned,
                    numWritten >>

Success == "Selected elements were successfully numbered."
NotAll == "Not all elements were numbered."

\* Lines 270-273.
Report ==
    /\ pc = "report"
    /\ alert' = IF Cardinality(modified_elem_ids) = Len(sel) THEN Success ELSE NotAll
    /\ pc' = "done"
    /\ UNCHANGED << sel, grids, bindingMap, sharedDefs, gridSquare, number,
                    txns, param, start_elem, start_point, intersections,
                    modified_elem_ids, bindingMap0, returned, gsAssigned,
                    numWritten >>

Next ==
    \/ ReadSelection
    \/ EnsureLookup
    \/ UpdateBinding
    \/ UpdateBindingRaises
    \/ CreateParameter
    \/ CreateParameterFails
    \/ PickStart
    \/ PickCancelled
    \/ LocateStart
    \/ CollectGrids
    \/ BeginTransaction
    \/ AssignGridSquares
    \/ AssignGridSquaresRaises
    \/ AssignNumbers
    \/ AssignNumbersRaises
    \/ CommitLabels
    \/ Report

Spec == Init /\ [][Next]_vars

----------------------------------------------------------------------------
(* Properties.                                                             *)

\* The selected element ids.
Selected == {sel[i] : i \in 1..Len(sel)}

\* The element has a location point or a location curve.
Located(eid) == GetElement(eid).Location.kind \in {"Point", "Curve"}

\* The point of a located element: the location point, or the midpoint of
\* the location curve.
LocationOf(eid) ==
    LET loc == GetElement(eid).Location
    IN  IF loc.kind = "Point" THEN loc.p0
        ELSE << (loc.p0[1] + loc.p1[1]) \div 2, (loc.p0[2] + loc.p1[2]) \div 2 >>

\* The element has the parameter and the parameter is not read-only.
HasWritable(eid, name) ==
    /\ name \in DOMAIN bindingMap
    /\ GetElement(eid).Category \in bindingMap[name]
    /\ name \notin GetElement(eid).ReadOnly

\* The categories of the selection that allow bound parameters.
BindableSelected ==
    {c \in Categories :
        /\ AllowsBoundParameters(c)
        /\ \E e \in Selected : GetElement(e).Category = c}

\* C1: after a completed run every selected element with a location and a
\* writable "Grid Square" holds "<V>-<H>", V the vertical and H the
\* horizontal grid of a computed intersection at minimal distance from the
\* element among all computed intersections.
C1_GridSquareIsNearest ==
    pc = "done" =>
        \A e \in Selected :
            (Located(e) /\ HasWritable(e, "Grid Square")) =>
                \E k \in 1..Len(intersections) :
                    /\ ~IsHorizontal(intersections[k][2])
                    /\ IsHorizontal(intersections[k][3])
                    /\ gridSquare[e] =
                          intersections[k][2].Name \o "-" \o intersections[k][3].Name
                    /\ \A j \in 1..Len(intersections) :
                          DistanceTo(LocationOf(e), intersections[k][1])
                              <= DistanceTo(LocationOf(e), intersections[j][1])

\* A completed run that labelled an element for which the intersections are
\* not all equally far, and one that lies equally far from two of them.
C1_Witness ==
    /\ pc = "done"
    /\ \E e \in gsAssigned :
          \E j, k \in 1..Len(intersections) :
              DistanceTo(LocationOf(e), intersections[j][1])
                  < DistanceTo(LocationOf(e), intersections[k][1])
    /\ \E e \in gsAssigned :
          \E j, k \in 1..Len(intersections) :
              /\ j # k
              /\ gridSquare[e] =
                    intersections[j][2].Name \o "-" \o intersections[j][3].Name
              /\ DistanceTo(LocationOf(e), intersections[j][1])
                    = DistanceTo(LocationOf(e), intersections[k][1])

\* C2: the numbers follow the distance from the start point: of two elements
\* numbered in the run, the one with the smaller number is not farther from
\* the start point.
C2_NumbersFollowDistance ==
    pc = "done" =>
        \A a, b \in DOMAIN numWritten :
            numWritten[a] < numWritten[b] =>
                DistanceTo(LocationOf(a), start_point)
                    <= DistanceTo(LocationOf(b), start_point)

\* A completed run in which the sort moved a nearer element in front of a
\* farther one that precedes it in the selection.
C2_Witness ==
    /\ pc = "done"
    /\ \E i, j \in 1..Len(sel) :
          /\ i < j
          /\ sel[i] \in DOMAIN numWritten
          /\ sel[j] \in DOMAIN numWritten
          /\ numWritten[sel[j]] < numWritten[sel[i]]
          /\ DistanceTo(LocationOf(sel[j]), start_point)
                < DistanceTo(LocationOf(sel[i]), start_point)

\* The parameter values of the document are those before the run.
LabelsUntouched ==
    /\ gridSquare = InitialValues(bindingMap0, "Grid Square")
    /\ number = InitialValues(bindingMap0, "Number")

\* C3 as stated: a run that stops with an alert-and-exit leaves the document,
\* its parameter bindings included, exactly as it was before the run.
C3_ExitLeavesDocumentUnchanged ==
    pc = "exit" => (bindingMap = bindingMap0 /\ LabelsUntouched)

\* C3 amended: a run that stops with an alert-and-exit has no transaction
\* open and leaves every parameter value as before the run; the bindings
\* are as before except for the parameters whose ensure_text_parameter call
\* returned, which only gained the parameter or categories (a failed creation
\* is rolled back).
C3_ExitKeepsLabelsAndCommittedBindings ==
    pc = "exit" =>
        /\ txns = {}
        /\ LabelsUntouched
        /\ \A p \in DOMAIN bindingMap0 :
              /\ p \in DOMAIN bindingMap
              /\ bindingMap0[p] \subseteq bindingMap[p]
        /\ \A p \in DOMAIN bindingMap :
              p \notin returned =>
                  /\ p \in DOMAIN bindingMap0
                  /\ bindingMap[p] = bindingMap0[p]

\* The creation of "Number" failed after the definition was bound inside the
\* transaction, and "Grid Square" had been created by the first call.
C3_Witness ==
    /\ pc = "exit"
    /\ alert = "Failed to create parameter: Number"
    /\ "Number" \in sharedDefs
    /\ "Grid Square" \notin DOMAIN bindingMap0
    /\ "Grid Square" \in DOMAIN bindingMap

\* C4 as stated: after the commit every selected element has been assigned
\* a "Grid Square" and a "Number".
C4_EverySelectedElementLabelled ==
    pc = "done" =>
        \A e \in Selected : e \in gsAssigned /\ e \in DOMAIN numWritten

\* C4 amended: after the commit a selected element has been assigned a
\* "Grid Square" exactly when it has a location and a writable "Grid Square",
\* and a "Number" exactly when it has a location and a writable "Number".
C4_LabelledWhenLocatedAndWritable ==
    pc = "done" =>
        \A e \in Selected :
            /\ e \in gsAssigned <=> (Located(e) /\ HasWritable(e, "Grid Square"))
            /\ e \in DOMAIN numWritten <=> (Located(e) /\ HasWritable(e, "Number"))

\* A completed run with a curve-located element that got both labels, an
\* element without location and one with a read-only parameter.
C4_Witness ==
    /\ pc = "done"
    /\ \E e \in Selected :
          /\ GetElement(e).Location.kind = "Curve"
          /\ e \in gsAssigned
          /\ e \in DOMAIN numWritten
    /\ \E e \in Selected : ~Located(e)
    /\ \E e \in Selected : e \in gsAssigned /\ e \notin DOMAIN numWritten

\* C5: the final report is the success message exactly when every selected
\* element received a "Number" in the run, and the other message otherwise.
C5_ReportIffAllNumbered ==
    pc = "done" =>
        /\ alert \in {Success, NotAll}
        /\ alert = Success <=> (\A e \in Selected : e \in DOMAIN numWritten)

\* C6: when ensure_text_parameter(doc, name, categories) has returned, the
\* binding map holds name, bound to every category of the selection that
\* allows bound parameters.
C6_EnsuredParameterIsBound ==
    \A p \in returned :
        /\ p \in DOMAIN bindingMap
        /\ BindableSelected \subseteq bindingMap[p]

\* Both calls returned: "Grid Square" did not exist before, "Number" existed
\* with a binding that missed a category of the selection.
C6_Witness ==
    /\ returned = ParamNames
    /\ "Grid Square" \notin DOMAIN bindingMap0
    /\ BindableSelected # {}
    /\ "Number" \in DOMAIN bindingMap0
    /\ ~(BindableSelected \subseteq bindingMap0["Number"])

\* C7: a step of ensure_text_parameter on a parameter that already exists
\* keeps every category of every binding and changes no other parameter's
\* binding.
C7_ExistingBindingOnlyGrows ==
    [][(pc \in {"ensure", "update"} /\ param \in DOMAIN bindingMap) =>
          /\ DOMAIN bindingMap' = DOMAIN bindingMap
          /\ \A p \in DOMAIN bindingMap :
                /\ bindingMap[p] \subseteq bindingMap'[p]
                /\ p # param => bindingMap'[p] = bindingMap[p]]_vars

\* The binding of "Number" was updated and kept a category that no selected
\* element has.
C7_Witness ==
    /\ "Number" \in returned
    /\ "Number" \in DOMAIN bindingMap0
    /\ bindingMap["Number"] # bindingMap0["Number"]
    /\ ~(bindingMap0["Number"] \subseteq BindableSelected)

\* C8: the "Number" values written in a run are exactly "1", ..., "k" for the
\* k elements that received one, each value on one element.
C8_NumbersSequentialFromOne ==
    pc = "done" =>
        LET numbered == DOMAIN numWritten
            k == Cardinality(numbered)
        IN  /\ {number[e] : e \in numbered} = {Str(i) : i \in 1..k}
            /\ \A a, b \in numbered : a # b => number[a] # number[b]

\* Two elements were numbered "1" and "2" although an element nearer to the
\* start point than both was skipped for its read-only "Number".
C8_Witness ==
    /\ pc = "done"
    /\ \E a, b \in DOMAIN numWritten, c \in Selected :
          /\ number[a] = "1"
          /\ number[b] = "2"
          /\ Located(c)
          /\ c \notin DOMAIN numWritten
          /\ DistanceTo(LocationOf(c), start_point)
                < DistanceTo(LocationOf(a), start_point)

\* C9: at most one transaction is open at any time, and when the script has
\* ended (report shown, alert-and-exit, or uncaught exception) every
\* transaction it started has been committed or rolled back.
C9_TransactionsClosedAtEnd ==
    /\ Cardinality(txns) <= 1
    /\ pc \in {"done", "exit", "crashed"} => txns = {}

\* C10: in every completed run the starting element receives "Number" = "1".
C10_StartElementIsNumberOne ==
    pc = "done" => (start_elem \in DOMAIN numWritten /\ number[start_elem] = "1")

====
